---------------------------- MODULE Spec2Model ----------------------------
(***************************************************************************)
(* SharedTurboAssembler's lane-widening SIMD emitters                      *)
(* (src/codegen/shared-ia32-x64/macro-assembler-shared-ia32-x64.cc).       *)
(*                                                                         *)
(* A call of one of the ten operations appends a sequence of SSE/AVX       *)
(* instructions to the instruction stream; the sequence is then executed,  *)
(* one instruction per step, on a file of 128-bit XMM registers.  A        *)
(* register value is a function from byte index 0..15 (little endian) to   *)
(* 0..255, and all lane arithmetic is done byte by byte, modulo the lane   *)
(* width.                                                                  *)
(***************************************************************************)
EXTENDS Integers, Sequences, FiniteSets

\* Number of XMM registers of the modelled register file (registers 0..NumRegs-1).
NumRegs == 4
\* Initial register files are numbered 0..MaxLayout.
MaxLayout == 1

Regs == 0 .. (NumRegs - 1)
NoReg == 0 - 1
Bytes == 0 .. 15

VARIABLES
    avx,      \* CpuFeatures::IsSupported(AVX)
    regs,     \* the XMM register file: register -> 16 bytes
    entry,    \* the register file at call entry
    call,     \* the arguments of the emitting call
    dcheck,   \* what DCHECK_EQ(dst, src1) did: "none", "passed", "failed", "elided"
    code,     \* the emitted instruction sequence
    pc,       \* index in code of the next instruction to execute
    phase,    \* "idle", "emitted", "done", "aborted"
    written,  \* registers written by the instructions executed so far
    stale     \* an executed instruction read, through a source handle, a register in written

vars == <<avx, regs, entry, call, dcheck, code, pc, phase, written, stale>>

----------------------------------------------------------------------------
(* Byte-level arithmetic on lanes.                                         *)

Pow2(t) == CASE t = 0 -> 1 [] t = 1 -> 2 [] t = 2 -> 4 [] t = 3 -> 8
             [] t = 4 -> 16 [] t = 5 -> 32 [] t = 6 -> 64 [] t = 7 -> 128

\* The byte whose bit t is f[t].
SumBits(f) == f[0] + 2 * f[1] + 4 * f[2] + 8 * f[3]
              + 16 * f[4] + 32 * f[5] + 64 * f[6] + 128 * f[7]

XorByte(x, y) == SumBits([t \in 0 .. 7 |-> ((x \div Pow2(t)) + (y \div Pow2(t))) % 2])

\* Lane i of v, the lanes being w bytes wide.
Lane(v, w, i) == [k \in 0 .. (w - 1) |-> v[i * w + k]]

\* The w-byte value x sign- or zero-extended to n bytes.
Extend(x, w, n, signed) ==
    [k \in 0 .. (n - 1) |->
        IF k < w THEN x[k]
        ELSE IF signed /\ x[w - 1] >= 128 THEN 255 ELSE 0]

\* Sum of x[i] * y[k - i] over i in 0..k.
RECURSIVE Column(_, _, _, _)
Column(x, y, k, i) ==
    IF i > k THEN 0 ELSE x[i] * y[k - i] + Column(x, y, k, i + 1)

\* The low n bytes of the product of the n-byte values x and y.
MulBytes(x, y, n) ==
    LET total[k \in 0 .. (n - 1)] ==
            Column(x, y, k, 0) + (IF k = 0 THEN 0 ELSE total[k - 1] \div 256)
    IN  [k \in 0 .. (n - 1) |-> total[k] % 256]

----------------------------------------------------------------------------
(* Instruction semantics: the 128-bit result of each instruction the       *)
(* emitters use, from the values of the operands it reads.                 *)

\* punpck{l,h}{bw,wd,dq,qdq}: interleave the low or high lanes (w bytes) of a and b.
Unpack(a, b, w, high) ==
    LET base == IF high THEN 8 \div w ELSE 0
    IN  [k \in Bytes |->
            LET L == k \div w
                from == (base + (L \div 2)) * w + (k % w)
            IN  IF L % 2 = 0 THEN a[from] ELSE b[from]]

\* psraw/psrad (arith) and psrlw: shift every w-byte lane right by n bits.
ShiftRight(a, w, n, arith) ==
    LET bit(p) == (a[p \div 8] \div Pow2(p % 8)) % 2
    IN  [k \in Bytes |->
            LET L == k \div w
                lo == L * 8 * w
            IN  SumBits([t \in 0 .. 7 |->
                    LET q == 8 * (k % w) + t + n
                    IN  IF q < 8 * w THEN bit(lo + q)
                        ELSE IF arith THEN bit(lo + 8 * w - 1) ELSE 0])]

\* pmullw: low 16 bits of the product of each pair of 16-bit lanes.
MulLow16(a, b) ==
    LET prod == [i \in 0 .. 7 |-> MulBytes(Lane(a, 2, i), Lane(b, 2, i), 2)]
    IN  [k \in Bytes |-> prod[k \div 2][k % 2]]

\* pmulhw / pmulhuw: high 16 bits of the signed or unsigned 32-bit product.
MulHigh16(a, b, signed) ==
    LET prod == [i \in 0 .. 7 |->
                    MulBytes(Extend(Lane(a, 2, i), 2, 4, signed),
                             Extend(Lane(b, 2, i), 2, 4, signed), 4)]
    IN  [k \in Bytes |-> prod[k \div 2][2 + (k % 2)]]

\* pmuldq / pmuludq: 64-bit product of the even 32-bit lanes (0 and 2).
MulEven32(a, b, signed) ==
    LET prod == [i \in 0 .. 1 |->
                    MulBytes(Extend(Lane(a, 4, 2 * i), 4, 8, signed),
                             Extend(Lane(b, 4, 2 * i), 4, 8, signed), 8)]
    IN  [k \in Bytes |-> prod[k \div 8][k % 8]]

\* pshufd: 32-bit lane i of the result is lane (imm >> 2i) & 3 of b.
Shuffle32(b, imm) ==
    [k \in Bytes |->
        LET sel == (imm \div Pow2(2 * (k \div 4))) % 4
        IN  b[4 * sel + (k % 4)]]

\* movhlps: the high quadword of b into the low quadword of a; a's high quadword stays.
MoveHighToLow(a, b) == [k \in Bytes |-> IF k < 8 THEN b[k + 8] ELSE a[k]]

\* pmovsx* / pmovzx*: widen the low 8 bytes of b from w-byte to 2w-byte lanes.
Widen(b, w, signed) ==
    [k \in Bytes |->
        Extend(Lane(b, w, k \div (2 * w)), w, 2 * w, signed)[k % (2 * w)]]

Sem(mn, v, imm) ==
    CASE mn = "movaps"     -> v[1]
      [] mn = "pxor"       -> [k \in Bytes |-> XorByte(v[1][k], v[2][k])]
      [] mn = "xorps"      -> [k \in Bytes |-> XorByte(v[1][k], v[2][k])]
      [] mn = "punpckhbw"  -> Unpack(v[1], v[2], 1, TRUE)
      [] mn = "punpcklwd"  -> Unpack(v[1], v[2], 2, FALSE)
      [] mn = "punpckhwd"  -> Unpack(v[1], v[2], 2, TRUE)
      [] mn = "punpckldq"  -> Unpack(v[1], v[2], 4, FALSE)
      [] mn = "punpckhdq"  -> Unpack(v[1], v[2], 4, TRUE)
      [] mn = "punpckhqdq" -> Unpack(v[1], v[2], 8, TRUE)
      [] mn = "psraw"      -> ShiftRight(v[1], 2, imm, TRUE)
      [] mn = "psrad"      -> ShiftRight(v[1], 4, imm, TRUE)
      [] mn = "psrlw"      -> ShiftRight(v[1], 2, imm, FALSE)
      [] mn = "pmullw"     -> MulLow16(v[1], v[2])
      [] mn = "pmulhw"     -> MulHigh16(v[1], v[2], TRUE)
      [] mn = "pmulhuw"    -> MulHigh16(v[1], v[2], FALSE)
      [] mn = "pmuldq"     -> MulEven32(v[1], v[2], TRUE)
      [] mn = "pmuludq"    -> MulEven32(v[1], v[2], FALSE)
      [] mn = "pshufd"     -> Shuffle32(v[1], imm)
      [] mn = "movhlps"    -> MoveHighToLow(v[1], v[2])
      [] mn = "pmovsxbw"   -> Widen(v[1], 1, TRUE)
      [] mn = "pmovzxbw"   -> Widen(v[1], 1, FALSE)
      [] mn = "pmovsxwd"   -> Widen(v[1], 2, TRUE)
      [] mn = "pmovzxwd"   -> Widen(v[1], 2, FALSE)
      [] mn = "pmovsxdq"   -> Widen(v[1], 4, TRUE)

----------------------------------------------------------------------------
(* The Instruction Emitter.  An operand is a register together with the    *)
(* handle it was passed through: a source handle (src, src1, src2) or not  *)
(* (dst, scratch, tmp).  An instruction names its mnemonic, whether it is  *)
(* VEX-encoded, the register it writes, the operands it reads in order,    *)
(* and its immediate.                                                      *)

Handle(r) == [reg |-> r, src |-> FALSE]
Source(r) == [reg |-> r, src |-> TRUE]

Ins(mn, vex, d, rd, imm) == [mn |-> mn, vex |-> vex, d |-> d.reg, rd |-> rd, imm |-> imm]

\* SSE forms: the first operand is read and overwritten.
movaps(dst, src)        == Ins("movaps", FALSE, dst, <<src>>, 0)
xorps(dst, src)         == Ins("xorps", FALSE, dst, <<dst, src>>, 0)
punpckhbw(dst, src)     == Ins("punpckhbw", FALSE, dst, <<dst, src>>, 0)
punpcklwd(dst, src)     == Ins("punpcklwd", FALSE, dst, <<dst, src>>, 0)
punpckhwd(dst, src)     == Ins("punpckhwd", FALSE, dst, <<dst, src>>, 0)
punpckhdq(dst, src)     == Ins("punpckhdq", FALSE, dst, <<dst, src>>, 0)
psraw(dst, imm)         == Ins("psraw", FALSE, dst, <<dst>>, imm)
psrlw(dst, imm)         == Ins("psrlw", FALSE, dst, <<dst>>, imm)
pmullw(dst, src)        == Ins("pmullw", FALSE, dst, <<dst, src>>, 0)
pmulhw(dst, src)        == Ins("pmulhw", FALSE, dst, <<dst, src>>, 0)
pmulhuw(dst, src)       == Ins("pmulhuw", FALSE, dst, <<dst, src>>, 0)
pmuldq(dst, src)        == Ins("pmuldq", FALSE, dst, <<dst, src>>, 0)
pmuludq(dst, src)       == Ins("pmuludq", FALSE, dst, <<dst, src>>, 0)
pshufd(dst, src, imm)   == Ins("pshufd", FALSE, dst, <<src>>, imm)
movhlps(dst, src)       == Ins("movhlps", FALSE, dst, <<dst, src>>, 0)
pmovsxbw(dst, src)      == Ins("pmovsxbw", FALSE, dst, <<src>>, 0)
pmovzxbw(dst, src)      == Ins("pmovzxbw", FALSE, dst, <<src>>, 0)
pmovsxwd(dst, src)      == Ins("pmovsxwd", FALSE, dst, <<src>>, 0)
pmovzxwd(dst, src)      == Ins("pmovzxwd", FALSE, dst, <<src>>, 0)
pmovsxdq(dst, src)      == Ins("pmovsxdq", FALSE, dst, <<src>>, 0)

\* AVX forms: three operands, the destination is only written.
vpxor(dst, a, b)        == Ins("pxor", TRUE, dst, <<a, b>>, 0)
vpunpckhbw(dst, a, b)   == Ins("punpckhbw", TRUE, dst, <<a, b>>, 0)
vpunpcklwd(dst, a, b)   == Ins("punpcklwd", TRUE, dst, <<a, b>>, 0)
vpunpckhwd(dst, a, b)   == Ins("punpckhwd", TRUE, dst, <<a, b>>, 0)
vpunpckldq(dst, a, b)   == Ins("punpckldq", TRUE, dst, <<a, b>>, 0)
vpunpckhdq(dst, a, b)   == Ins("punpckhdq", TRUE, dst, <<a, b>>, 0)
vpunpckhqdq(dst, a, b)  == Ins("punpckhqdq", TRUE, dst, <<a, b>>, 0)
vpsraw(dst, a, imm)     == Ins("psraw", TRUE, dst, <<a>>, imm)
vpsrad(dst, a, imm)     == Ins("psrad", TRUE, dst, <<a>>, imm)
vpmullw(dst, a, b)      == Ins("pmullw", TRUE, dst, <<a, b>>, 0)
vpmulhw(dst, a, b)      == Ins("pmulhw", TRUE, dst, <<a, b>>, 0)
vpmulhuw(dst, a, b)     == Ins("pmulhuw", TRUE, dst, <<a, b>>, 0)
vpmuldq(dst, a, b)      == Ins("pmuldq", TRUE, dst, <<a, b>>, 0)
vpmuludq(dst, a, b)     == Ins("pmuludq", TRUE, dst, <<a, b>>, 0)
vpmovsxdq(dst, src)     == Ins("pmovsxdq", TRUE, dst, <<src>>, 0)


----------------------------------------------------------------------------
(* The ten emitting operations: the instruction sequence each appends,     *)
(* given its register arguments, its flags and the feature query's answer. *)

I16x8ExtMulHighS(dst, src1, src2, scratch, isAvx) ==
    LET d  == Handle(dst)
        s1 == Source(src1)
        s2 == Source(src2)
        t  == Handle(scratch)
    IN  IF isAvx
        THEN << vpunpckhbw(t, s1, s1),
                vpsraw(t, t, 8),
                vpunpckhbw(d, s2, s2),
                vpsraw(d, d, 8),
                vpmullw(d, d, t) >>
        ELSE (IF dst # src1 THEN << movaps(d, s1) >> ELSE << >>)
             \o << movaps(t, s2),
                   punpckhbw(d, d),
                   psraw(d, 8),
                   punpckhbw(t, t),
                   psraw(t, 8),
                   pmullw(d, t) >>

I16x8ExtMulHighU(dst, src1, src2, scratch, isAvx) ==
    LET d    == Handle(dst)
        t    == Handle(scratch)
        \* std::swap(src1, src2) when dst == src2
        swap == dst = src2
        s1   == Source(IF swap THEN src2 ELSE src1)
        s2   == Source(IF swap THEN src1 ELSE src2)
    IN  IF isAvx
        THEN IF src1 = src2
             THEN << vpxor(t, t, t),
                     vpunpckhbw(d, Source(src1), t),
                     vpmullw(d, d, d) >>
             ELSE << vpxor(t, t, t),
                     vpunpckhbw(d, s1, t),
                     vpunpckhbw(t, s2, t),
                     vpmullw(d, d, t) >>
        ELSE IF src1 = src2
             THEN << xorps(t, t) >>
                  \o (IF dst # src1 THEN << movaps(d, Source(src1)) >> ELSE << >>)
                  \o << punpckhbw(d, t),
                        pmullw(d, t) >>
             ELSE (IF ~swap /\ dst # src1 THEN << movaps(d, s1) >> ELSE << >>)
                  \o << xorps(t, t),
                        punpckhbw(d, t),
                        punpckhbw(t, s2),
                        psrlw(t, 8),
                        pmullw(d, t) >>

\* A defective variant: the legacy dst = src path widens without first
\* moving the high half down.
I16x8SConvertI8x16High_NoMovhlps(dst, src, isAvx) ==
    LET d == Handle(dst)
        s == Source(src)
    IN  IF isAvx
        THEN << vpunpckhbw(d, s, s),
                vpsraw(d, d, 8) >>
        ELSE IF dst = src
             THEN << pmovsxbw(d, d) >>
             ELSE << pshufd(d, s, 238),
                     pmovsxbw(d, d) >>

I16x8SConvertI8x16High(dst, src, isAvx) ==
    LET d == Handle(dst)
        s == Source(src)
    IN  IF isAvx
        THEN << vpunpckhbw(d, s, s),
                vpsraw(d, d, 8) >>
        ELSE IF dst = src
             THEN << movhlps(d, s),
                     pmovsxbw(d, d) >>
             ELSE << pshufd(d, s, 238),      \* 0xEE
                     pmovsxbw(d, d) >>

\* A defective variant: the AVX path always zeroes scratch.
I16x8UConvertI8x16High_TmpScratch(dst, src, scratch, isAvx) ==
    LET d   == Handle(dst)
        s   == Source(src)
        t   == Handle(scratch)
    IN  IF isAvx
        THEN << vpxor(t, t, t),
                vpunpckhbw(d, s, t) >>
        ELSE IF dst = src
             THEN << xorps(t, t),
                     punpckhbw(d, t) >>
             ELSE << pshufd(d, s, 238),
                     pmovzxbw(d, d) >>

I16x8UConvertI8x16High(dst, src, scratch, isAvx) ==
    LET d   == Handle(dst)
        s   == Source(src)
        t   == Handle(scratch)
        tmp == IF dst = src THEN t ELSE d
    IN  IF isAvx
        THEN << vpxor(tmp, tmp, tmp),
                vpunpckhbw(d, s, tmp) >>
        ELSE IF dst = src
             THEN << xorps(t, t),
                     punpckhbw(d, t) >>
             ELSE << pshufd(d, s, 238),      \* 0xEE
                     pmovzxbw(d, d) >>

\* A defective variant: the operands of the legacy pmullw are exchanged.
I32x4ExtMul_PmullwIntoSrc2(dst, src1, src2, scratch, low, is_signed, isAvx) ==
    LET d  == Handle(dst)
        s1 == Source(src1)
        s2 == Source(src2)
        t  == Handle(scratch)
    IN  IF isAvx
        THEN << vpmullw(t, s1, s2),
                IF is_signed THEN vpmulhw(d, s1, s2) ELSE vpmulhuw(d, s1, s2),
                IF low THEN vpunpcklwd(d, t, d) ELSE vpunpckhwd(d, t, d) >>
        ELSE << movaps(t, s1),
                pmullw(s2, d),
                IF is_signed THEN pmulhw(t, s2) ELSE pmulhuw(t, s2),
                IF low THEN punpcklwd(d, t) ELSE punpckhwd(d, t) >>

\* The non-AVX sequence is emitted only past DCHECK_EQ(dst, src1).
I32x4ExtMul(dst, src1, src2, scratch, low, is_signed, isAvx) ==
    LET d  == Handle(dst)
        s1 == Source(src1)
        s2 == Source(src2)
        t  == Handle(scratch)
    IN  IF isAvx
        THEN << vpmullw(t, s1, s2),
                IF is_signed THEN vpmulhw(d, s1, s2) ELSE vpmulhuw(d, s1, s2),
                IF low THEN vpunpcklwd(d, t, d) ELSE vpunpckhwd(d, t, d) >>
        ELSE << movaps(t, s1),
                pmullw(d, s2),
                IF is_signed THEN pmulhw(t, s2) ELSE pmulhuw(t, s2),
                IF low THEN punpcklwd(d, t) ELSE punpckhwd(d, t) >>

I32x4SConvertI16x8High(dst, src, isAvx) ==
    LET d == Handle(dst)
        s == Source(src)
    IN  IF isAvx
        THEN << vpunpckhwd(d, s, s),
                vpsrad(d, d, 16) >>
        ELSE IF dst = src
             THEN << movhlps(d, s),
                     pmovsxwd(d, d) >>
             ELSE << pshufd(d, s, 238),      \* 0xEE
                     pmovsxwd(d, d) >>

I32x4UConvertI16x8High(dst, src, scratch, isAvx) ==
    LET d   == Handle(dst)
        s   == Source(src)
        t   == Handle(scratch)
        tmp == IF dst = src THEN t ELSE d
    IN  IF isAvx
        THEN << vpxor(tmp, tmp, tmp),
                vpunpckhwd(d, s, tmp) >>
        ELSE IF dst = src
             THEN << xorps(t, t),
                     punpckhwd(d, t) >>
             ELSE << pshufd(d, s, 238),      \* 0xEE
                     pmovzxwd(d, d) >>

I64x2ExtMul(dst, src1, src2, scratch, low, is_signed, isAvx) ==
    LET d    == Handle(dst)
        s1   == Source(src1)
        s2   == Source(src2)
        t    == Handle(scratch)
        mask == IF low THEN 80 ELSE 250      \* 0x50 : 0xFA
    IN  IF isAvx
        THEN (IF low
              THEN << vpunpckldq(t, s1, s1),
                      vpunpckldq(d, s2, s2) >>
              ELSE << vpunpckhdq(t, s1, s1),
                      vpunpckhdq(d, s2, s2) >>)
             \o << IF is_signed THEN vpmuldq(d, t, d) ELSE vpmuludq(d, t, d) >>
        ELSE << pshufd(t, s1, mask),
                pshufd(d, s2, mask),
                IF is_signed THEN pmuldq(d, t) ELSE pmuludq(d, t) >>

I64x2SConvertI32x4High(dst, src, isAvx) ==
    LET d == Handle(dst)
        s == Source(src)
    IN  IF isAvx
        THEN << vpunpckhqdq(d, s, s),
                vpmovsxdq(d, d) >>
        ELSE (IF dst = src
              THEN << movhlps(d, s) >>
              ELSE << pshufd(d, s, 238) >>)  \* 0xEE
             \o << pmovsxdq(d, d) >>

I64x2UConvertI32x4High(dst, src, scratch, isAvx) ==
    LET d == Handle(dst)
        s == Source(src)
        t == Handle(scratch)
    IN  IF isAvx
        THEN << vpxor(t, t, t),
                vpunpckhdq(d, s, t) >>
        ELSE (IF dst # src THEN << movaps(d, s) >> ELSE << >>)
             \o << xorps(t, t),
                   punpckhdq(d, t) >>

\* The sequence a call emits; none when DCHECK_EQ(dst, src1) fails.
Emit(c, isAvx) ==
    CASE c.op = "I16x8ExtMulHighS" ->
            I16x8ExtMulHighS(c.dst, c.src1, c.src2, c.scratch, isAvx)
      [] c.op = "I16x8ExtMulHighU" ->
            I16x8ExtMulHighU(c.dst, c.src1, c.src2, c.scratch, isAvx)
      [] c.op = "I16x8SConvertI8x16High" ->
            I16x8SConvertI8x16High(c.dst, c.src1, isAvx)
      [] c.op = "I16x8UConvertI8x16High" ->
            I16x8UConvertI8x16High(c.dst, c.src1, c.scratch, isAvx)
      [] c.op = "I32x4ExtMul" ->
            I32x4ExtMul(c.dst, c.src1, c.src2, c.scratch, c.low, c.is_signed, isAvx)
      [] c.op = "I32x4SConvertI16x8High" ->
            I32x4SConvertI16x8High(c.dst, c.src1, isAvx)
      [] c.op = "I32x4UConvertI16x8High" ->
            I32x4UConvertI16x8High(c.dst, c.src1, c.scratch, isAvx)
      [] c.op = "I64x2ExtMul" ->
            I64x2ExtMul(c.dst, c.src1, c.src2, c.scratch, c.low, c.is_signed, isAvx)
      [] c.op = "I64x2SConvertI32x4High" ->
            I64x2SConvertI32x4High(c.dst, c.src1, isAvx)
      [] c.op = "I64x2UConvertI32x4High" ->
            I64x2UConvertI32x4High(c.dst, c.src1, c.scratch, isAvx)

----------------------------------------------------------------------------
(* Execution of emitted code.                                              *)

\* The register file after one instruction.
Exec(ins, rf) ==
    [rf EXCEPT ![ins.d] =
        Sem(ins.mn, [i \in 1 .. Len(ins.rd) |-> rf[ins.rd[i].reg]], ins.imm)]

\* The register file after the instructions seq[i..] run from rf.
RECURSIVE RunFrom(_, _, _)
RunFrom(seq, i, rf) ==
    IF i > Len(seq) THEN rf ELSE RunFrom(seq, i + 1, Exec(seq[i], rf))

Run(seq, rf) == RunFrom(seq, 1, rf)

\* Whether ins reads, through a source handle, a register in w.
ReadsStale(ins, w) ==
    \E i \in 1 .. Len(ins.rd) : ins.rd[i].src /\ ins.rd[i].reg \in w

----------------------------------------------------------------------------
(* The state machine.                                                      *)

\* Register contents of the initial register files: seed 0 is the byte
\* vector 1, 2, ..., 16; the other seeds mix bytes below and above 128, so
\* that every lane meets every combination of operand signs.
TestVec(seed) ==
    [i \in Bytes |-> ((i + 1) + seed * (13 * i * i + 61 * i + 134)) % 256]

\* Initial register file k: register r holds the vector of seed k + r.
Layout(k) == [r \in Regs |-> TestVec(k + r)]

NoCall == [op |-> "none", dst |-> NoReg, src1 |-> NoReg, src2 |-> NoReg,
           scratch |-> NoReg, low |-> FALSE, is_signed |-> FALSE]

Init ==
    /\ avx \in BOOLEAN
    /\ \E k \in 0 .. MaxLayout : regs = Layout(k)
    /\ entry = regs
    /\ call = NoCall
    /\ dcheck = "none"
    /\ code = << >>
    /\ pc = 1
    /\ phase = "idle"
    /\ written = {}
    /\ stale = FALSE

\* A call whose emitter has no precondition check: the sequence is appended.
Emitted(c) ==
    /\ call' = c
    /\ code' = Emit(c, avx)
    /\ dcheck' = "none"
    /\ phase' = "emitted"
    /\ UNCHANGED <<avx, regs, entry, pc, written, stale>>

Call2(op, dst, src1, src2, scratch) ==
    [op |-> op, dst |-> dst, src1 |-> src1, src2 |-> src2, scratch |-> scratch,
     low |-> FALSE, is_signed |-> FALSE]

CallI16x8ExtMulHighS ==
    \E dst, src1, src2 \in Regs : \E scratch \in Regs \ {dst, src1, src2} :
        /\ phase = "idle"
        /\ Emitted(Call2("I16x8ExtMulHighS", dst, src1, src2, scratch))

CallI16x8ExtMulHighU ==
    \E dst, src1, src2 \in Regs : \E scratch \in Regs \ {dst, src1, src2} :
        /\ phase = "idle"
        /\ Emitted(Call2("I16x8ExtMulHighU", dst, src1, src2, scratch))

CallI16x8SConvertI8x16High ==
    \E dst, src \in Regs :
        /\ phase = "idle"
        /\ Emitted(Call2("I16x8SConvertI8x16High", dst, src, src, NoReg))

CallI16x8UConvertI8x16High ==
    \E dst, src \in Regs : \E scratch \in Regs \ {dst, src} :
        /\ phase = "idle"
        /\ Emitted(Call2("I16x8UConvertI8x16High", dst, src, src, scratch))

\* DCHECK_EQ(a, b): compiled out of a build without DCHECKs, fatal when a # b.
DCHECK_EQ(debug, a, b) ==
    IF ~debug THEN "elided" ELSE IF a = b THEN "passed" ELSE "failed"

\* A defective variant: the check compares dst with src2.
I32x4ExtMulCheck_Src2(dst, src1, src2, debug, isAvx) ==
    IF isAvx THEN "none" ELSE DCHECK_EQ(debug, dst, src2)

\* The precondition check of I32x4ExtMul: DCHECK_EQ(dst, src1), on the
\* non-AVX path only.
I32x4ExtMulCheck(dst, src1, src2, debug, isAvx) ==
    IF isAvx THEN "none" ELSE DCHECK_EQ(debug, dst, src1)

\* A failing DCHECK aborts before anything is emitted.  (With AVX the build
\* kind makes no difference, so only one is taken.)
CallI32x4ExtMul ==
    \E dst, src1, src2 \in Regs : \E scratch \in Regs \ {dst, src1, src2} :
    \E low, is_signed, debug \in BOOLEAN :
        LET c == [op |-> "I32x4ExtMul", dst |-> dst, src1 |-> src1, src2 |-> src2,
                  scratch |-> scratch, low |-> low, is_signed |-> is_signed]
        IN  /\ phase = "idle"
            /\ avx => debug
            /\ call' = c
            /\ dcheck' = I32x4ExtMulCheck(dst, src1, src2, debug, avx)
            /\ IF dcheck' = "failed"
               THEN /\ code' = << >>
                    /\ phase' = "aborted"
               ELSE /\ code' = Emit(c, avx)
                    /\ phase' = "emitted"
            /\ UNCHANGED <<avx, regs, entry, pc, written, stale>>

CallI32x4SConvertI16x8High ==
    \E dst, src \in Regs :
        /\ phase = "idle"
        /\ Emitted(Call2("I32x4SConvertI16x8High", dst, src, src, NoReg))

CallI32x4UConvertI16x8High ==
    \E dst, src \in Regs : \E scratch \in Regs \ {dst, src} :
        /\ phase = "idle"
        /\ Emitted(Call2("I32x4UConvertI16x8High", dst, src, src, scratch))

CallI64x2ExtMul ==
    \E dst, src1, src2 \in Regs : \E scratch \in Regs \ {dst, src1, src2} :
    \E low, is_signed \in BOOLEAN :
        /\ phase = "idle"
        /\ Emitted([op |-> "I64x2ExtMul", dst |-> dst, src1 |-> src1, src2 |-> src2,
                 scratch |-> scratch, low |-> low, is_signed |-> is_signed])

CallI64x2SConvertI32x4High ==
    \E dst, src \in Regs :
        /\ phase = "idle"
        /\ Emitted(Call2("I64x2SConvertI32x4High", dst, src, src, NoReg))

CallI64x2UConvertI32x4High ==
    \E dst, src \in Regs : \E scratch \in Regs \ {dst, src} :
        /\ phase = "idle"
        /\ Emitted(Call2("I64x2UConvertI32x4High", dst, src, src, scratch))

\* The processor executes the next instruction of the emitted sequence.
Step ==
    /\ phase = "emitted"
    /\ pc <= Len(code)
    /\ regs' = Exec(code[pc], regs)
    /\ written' = written \cup {code[pc].d}
    /\ stale' = (stale \/ ReadsStale(code[pc], written))
    /\ pc' = pc + 1
    /\ phase' = IF pc = Len(code) THEN "done" ELSE "emitted"
    /\ UNCHANGED <<avx, entry, call, dcheck, code>>

Next ==
    \/ CallI16x8ExtMulHighS
    \/ CallI16x8ExtMulHighU
    \/ CallI16x8SConvertI8x16High
    \/ CallI16x8UConvertI8x16High
    \/ CallI32x4ExtMul
    \/ CallI32x4SConvertI16x8High
    \/ CallI32x4UConvertI16x8High
    \/ CallI64x2ExtMul
    \/ CallI64x2SConvertI32x4High
    \/ CallI64x2UConvertI32x4High
    \/ Step

Spec == Init /\ [][Next]_vars

----------------------------------------------------------------------------
(* The scalar reference: the widening arithmetic lane by lane, on the      *)
(* values the sources held at call entry.                                  *)

\* Lane i (2w bytes) is ext(x lane base+i) * ext(y lane base+i), lanes of x, y w bytes.
RefExtMul(x, y, w, base, signed) ==
    LET prod == [i \in 0 .. ((8 \div w) - 1) |->
                    MulBytes(Extend(Lane(x, w, base + i), w, 2 * w, signed),
                             Extend(Lane(y, w, base + i), w, 2 * w, signed), 2 * w)]
    IN  [k \in Bytes |-> prod[k \div (2 * w)][k % (2 * w)]]

\* Lane i (2w bytes) is ext(x lane n/2+i), x having n = 16/w lanes.
RefExtendHigh(x, w, signed) ==
    LET wide == [i \in 0 .. ((8 \div w) - 1) |->
                    Extend(Lane(x, w, (8 \div w) + i), w, 2 * w, signed)]
    IN  [k \in Bytes |-> wide[k \div (2 * w)][k % (2 * w)]]

ExtMulOps == {"I16x8ExtMulHighS", "I16x8ExtMulHighU", "I32x4ExtMul", "I64x2ExtMul"}
SConvertOps == {"I16x8SConvertI8x16High", "I32x4SConvertI16x8High", "I64x2SConvertI32x4High"}
UConvertOps == {"I16x8UConvertI8x16High", "I32x4UConvertI16x8High", "I64x2UConvertI32x4High"}
ConvertOps == SConvertOps \cup UConvertOps

\* What call c must leave in its dst, the register file at entry being rf.
Expected(c, rf) ==
    LET x == rf[c.src1]
        y == rf[c.src2]
    IN  CASE c.op = "I16x8ExtMulHighS" -> RefExtMul(x, y, 1, 8, TRUE)
          [] c.op = "I16x8ExtMulHighU" -> RefExtMul(x, y, 1, 8, FALSE)
          [] c.op = "I32x4ExtMul" ->
                RefExtMul(x, y, 2, IF c.low THEN 0 ELSE 4, c.is_signed)
          [] c.op = "I64x2ExtMul" ->
                RefExtMul(x, y, 4, IF c.low THEN 0 ELSE 2, c.is_signed)
          [] c.op = "I16x8SConvertI8x16High" -> RefExtendHigh(x, 1, TRUE)
          [] c.op = "I16x8UConvertI8x16High" -> RefExtendHigh(x, 1, FALSE)
          [] c.op = "I32x4SConvertI16x8High" -> RefExtendHigh(x, 2, TRUE)
          [] c.op = "I32x4UConvertI16x8High" -> RefExtendHigh(x, 2, FALSE)
          [] c.op = "I64x2SConvertI32x4High" -> RefExtendHigh(x, 4, TRUE)
          [] c.op = "I64x2UConvertI32x4High" -> RefExtendHigh(x, 4, FALSE)

Done == phase = "done"

\* The call meets the precondition of the legacy form of its operation.
MeetsLegacyPrecondition(c) == c.op = "I32x4ExtMul" => c.dst = c.src1

\* The call meets the precondition of the form selected by isAvx.
MeetsPrecondition(c, isAvx) == isAvx \/ MeetsLegacyPrecondition(c)

\* What is in dst after call c, under feature setting isAvx, runs from rf.
Result(c, isAvx, rf) == Run(Emit(c, isAvx), rf)[c.dst]

\* The three configurations in which a legacy sequence miscomputes:
\* I16x8ExtMulHighS copies src1 over dst = src2 before reading src2;
\* I16x8ExtMulHighU with src1 = src2 multiplies by the zeroed scratch;
\* I32x4ExtMul reads src2 = dst after pmullw has overwritten it.
CopyClobbersSrc2(c, isAvx) ==
    c.op = "I16x8ExtMulHighS" /\ ~isAvx /\ c.dst = c.src2 /\ c.dst # c.src1
SquareTimesZero(c, isAvx) ==
    c.op = "I16x8ExtMulHighU" /\ ~isAvx /\ c.src1 = c.src2
LowProductClobbersSrc2(c, isAvx) ==
    c.op = "I32x4ExtMul" /\ ~isAvx /\ c.src2 = c.dst
Miscomputes(c, isAvx) ==
    CopyClobbersSrc2(c, isAvx) \/ SquareTimesZero(c, isAvx)
        \/ LowProductClobbersSrc2(c, isAvx)

----------------------------------------------------------------------------
(* C1: the sequences of I16x8ExtMulHighS, I16x8ExtMulHighU and I64x2ExtMul *)
(* leave in dst the lane-by-lane reference product of the sources' entry   *)
(* values, for every aliasing of dst, src1 and src2 and both feature       *)
(* settings.                                                               *)
C1_ExtMulMatchesReference ==
    (Done /\ call.op \in {"I16x8ExtMulHighS", "I16x8ExtMulHighU", "I64x2ExtMul"})
        => regs[call.dst] = Expected(call, entry)

\* C1 outside the two failing configurations (legacy I16x8ExtMulHighS with
\* dst = src2 # src1, legacy I16x8ExtMulHighU with src1 = src2).
C1_HoldsElsewhere ==
    (/\ Done
     /\ call.op \in {"I16x8ExtMulHighS", "I16x8ExtMulHighU", "I64x2ExtMul"}
     /\ ~Miscomputes(call, avx))
        => regs[call.dst] = Expected(call, entry)

(* C2: I32x4ExtMul leaves in dst the full 32-bit products of the selected  *)
(* 16-bit lanes, with AVX for every aliasing and without AVX whenever      *)
(* dst = src1, whatever src2 is.                                           *)
C2_I32x4ExtMulMatchesReference ==
    (Done /\ call.op = "I32x4ExtMul" /\ MeetsPrecondition(call, avx))
        => regs[call.dst] = Expected(call, entry)

\* C2 outside the failing configuration (legacy form with src2 = dst).
C2_HoldsElsewhere ==
    (/\ Done /\ call.op = "I32x4ExtMul" /\ MeetsPrecondition(call, avx)
     /\ ~Miscomputes(call, avx))
        => regs[call.dst] = Expected(call, entry)

(* C3: each of the six extend-high operations leaves in dst the sign- or   *)
(* zero-extension of the high narrow lanes of src's entry value, whether   *)
(* or not dst = src and under both feature settings; and the legacy        *)
(* sequence for any other dst leaves that same value there.                *)
C3_ExtendHighMatchesReference ==
    (Done /\ call.op \in ConvertOps)
        => /\ regs[call.dst] = Expected(call, entry)
           /\ ~avx => \A d2 \in Regs \ {call.scratch} :
                        Result([call EXCEPT !.dst = d2], FALSE, entry) = regs[call.dst]

\* A legacy extend-high call with dst = src whose high half holds a negative lane.
C3_Witness ==
    /\ Done /\ call.op \in ConvertOps /\ ~avx /\ call.dst = call.src1
    /\ \E k \in 8 .. 15 : entry[call.src1][k] >= 128
    /\ regs[call.dst] # entry[call.dst]

(* C4: an I16x8ExtMulHighU call with src1 = src2 holding v leaves in dst   *)
(* what a call with two different source registers both holding v leaves.  *)
C4_FusedSquareAgreesWithGeneral ==
    (Done /\ call.op = "I16x8ExtMulHighU" /\ call.src1 = call.src2)
        => \A r \in Regs \ {call.src1, call.scratch} :
              Result([call EXCEPT !.src2 = r], avx,
                     [entry EXCEPT ![r] = entry[call.src1]]) = regs[call.dst]

\* C4 with AVX, where the fused path squares dst.
C4_HoldsWithAvx ==
    (Done /\ call.op = "I16x8ExtMulHighU" /\ call.src1 = call.src2 /\ avx)
        => \A r \in Regs \ {call.src1, call.scratch} :
              Result([call EXCEPT !.src2 = r], avx,
                     [entry EXCEPT ![r] = entry[call.src1]]) = regs[call.dst]

(* C5: for every extended multiply, the call with the sources exchanged,   *)
(* from the same register file, leaves the same value in dst, wherever     *)
(* both calls meet the operation's precondition.                           *)
C5_ExtMulCommutes ==
    LET swapped == [call EXCEPT !.src1 = call.src2, !.src2 = call.src1]
    IN  (/\ Done /\ call.op \in ExtMulOps
         /\ MeetsPrecondition(call, avx) /\ MeetsPrecondition(swapped, avx))
            => Result(swapped, avx, entry) = regs[call.dst]

\* C5 where neither call is in a miscomputing configuration.
C5_HoldsElsewhere ==
    LET swapped == [call EXCEPT !.src1 = call.src2, !.src2 = call.src1]
    IN  (/\ Done /\ call.op \in ExtMulOps
         /\ MeetsPrecondition(call, avx) /\ MeetsPrecondition(swapped, avx)
         /\ ~Miscomputes(call, avx) /\ ~Miscomputes(swapped, avx))
            => Result(swapped, avx, entry) = regs[call.dst]

(* C6: the sequence for the other feature setting, run from the same       *)
(* register file, leaves the same value in dst, for every call that meets  *)
(* the preconditions of both forms.                                        *)
C6_FeatureIndependentResult ==
    (Done /\ MeetsLegacyPrecondition(call))
        => Result(call, ~avx, entry) = regs[call.dst]

\* C6 where the legacy sequence is not in a miscomputing configuration.
C6_HoldsElsewhere ==
    (Done /\ MeetsLegacyPrecondition(call) /\ ~Miscomputes(call, FALSE))
        => Result(call, ~avx, entry) = regs[call.dst]

(* C7: without AVX, in a build with DCHECKs, an I32x4ExtMul call with      *)
(* dst # src1 fails DCHECK_EQ(dst, src1) with nothing emitted or run; with *)
(* AVX the check is not evaluated and no call is rejected.                 *)
C7_PreconditionAsserted ==
    /\ (/\ call.op = "I32x4ExtMul" /\ ~avx /\ call.dst # call.src1
        /\ dcheck # "elided")
          => /\ dcheck = "failed" /\ phase = "aborted"
             /\ code = << >> /\ regs = entry /\ written = {}
    /\ (avx /\ call.op # "none") => (dcheck = "none" /\ phase # "aborted")
    /\ phase = "aborted" => (call.op = "I32x4ExtMul" /\ ~avx /\ call.dst # call.src1)

\* A legacy I32x4ExtMul call with dst # src1 has been rejected.
C7_Witness ==
    /\ phase = "aborted" /\ call.op = "I32x4ExtMul" /\ ~avx
    /\ call.dst # call.src1 /\ call.dst = call.src2

(* C8: no executed instruction reads, through a source handle, a register  *)
(* an earlier instruction of the sequence has written, in any call that    *)
(* meets its operation's precondition.                                     *)
C8_NoStaleSourceRead ==
    MeetsPrecondition(call, avx) => ~stale

\* C8 outside the two configurations whose sequence reads a clobbered source.
C8_HoldsElsewhere ==
    (/\ MeetsPrecondition(call, avx)
     /\ ~CopyClobbersSrc2(call, avx) /\ ~LowProductClobbersSrc2(call, avx))
        => ~stale

(* C9: the instructions of a call write only dst and scratch; every other  *)
(* register holds its entry value throughout.                              *)
C9_WritesOnlyDstAndScratch ==
    /\ \A i \in 1 .. Len(code) : code[i].d \in {call.dst, call.scratch} \ {NoReg}
    /\ written \subseteq {call.dst, call.scratch} \ {NoReg}
    /\ \A r \in Regs \ {call.dst, call.scratch} : regs[r] = entry[r]

\* A finished call with a source that aliases neither dst nor scratch, both written.
C9_Witness ==
    /\ Done /\ call.op \in ExtMulOps
    /\ call.src1 # call.dst /\ call.src2 # call.dst /\ call.src1 # call.src2
    /\ written = {call.dst, call.scratch}
    /\ regs[call.dst] # entry[call.dst]

\* The register the first instruction of the AVX zero-extend sequence zeroes.
Zeroed == code[1].d

(* C10 as stated: in the AVX form of each zero-extend-high operation the   *)
(* register zeroed is dst when dst # src and scratch when dst = src, so    *)
(* with dst # src scratch is not written.                                  *)
C10_ZeroesDstUnlessAliased ==
    (avx /\ call.op \in UConvertOps)
        => /\ code[1].mn = "pxor"
           /\ Zeroed = (IF call.dst = call.src1 THEN call.scratch ELSE call.dst)
           /\ (Done /\ call.dst # call.src1) => call.scratch \notin written

(* C10 as amended: that holds of I16x8UConvertI8x16High and                *)
(* I32x4UConvertI16x8High; I64x2UConvertI32x4High always zeroes scratch,   *)
(* so there scratch is written whether or not dst = src.                   *)
C10_ZeroedRegister ==
    (avx /\ call.op \in UConvertOps)
        => /\ code[1].mn = "pxor"
           /\ code[1].rd = << Handle(Zeroed), Handle(Zeroed) >>
           /\ IF call.op = "I64x2UConvertI32x4High"
              THEN /\ Zeroed = call.scratch
                   /\ Done => written = {call.scratch, call.dst}
              ELSE /\ Zeroed = (IF call.dst = call.src1 THEN call.scratch ELSE call.dst)
                   /\ (Done /\ call.dst # call.src1) => written = {call.dst}
                   /\ (Done /\ call.dst = call.src1) => written = {call.scratch, call.dst}

\* An AVX zero-extend call with dst # src has finished without touching scratch.
C10_Witness ==
    /\ Done /\ avx /\ call.op \in {"I16x8UConvertI8x16High", "I32x4UConvertI16x8High"}
    /\ call.dst # call.src1
    /\ written = {call.dst}
    /\ regs[call.scratch] = entry[call.scratch]

============================================================================
